---- MODULE Spec2Model ----
(***************************************************************************)
(* vkeyboard client (src/client/client.py): the JsonTransport reconnect    *)
(* loop running on background threads, the UI thread's calls into it, and  *)
(* the pointer relay of VKeyboardApp.                                      *)
(***************************************************************************)
EXTENDS Integers, Sequences, FiniteSets, TLC

\* ------------------------------------------------------------------ bounds
MaxLoops == 2      \* background threads start() may create
MaxConns == 2      \* connections the server accepts over a run
MaxFails == 3      \* connect failures counted in a failures-only run
MaxWorkQ == 1      \* coroutines waiting on one event loop
MaxAfterQ == 1     \* root.after(0, ...) callbacks waiting on the UI thread
MaxPending == 2    \* pointer-poll timer callbacks waiting on the UI thread

\* ------------------------------------------------------- program constants
RetryDelay == 1    \* asyncio.sleep(1)
Notch == 120       \* wheel delta of one notch

Loops == 1..MaxLoops
Conns == 1..MaxConns

\* Addresses, as sequences of text chunks: " " is whitespace, "ws://" a scheme.
EmptyUrl == <<>>
GoodUrl == <<"ws://", "h:1">>
BadUrl == <<"ws://", "h", " ", "1">>
Urls == {EmptyUrl, GoodUrl, BadUrl}
HostInputs == {<<>>, <<" ">>, <<" ", "h:1">>, <<"ws://", "h:1">>, <<"h", " ", "1">>}
Schemes == {"ws://", "wss://"}

\* raw pointer positions (winfo_pointerx, winfo_pointery), on and off the screen
Points == {<<1, 1>>, <<3, 1>>, <<-1, 3>>}
\* winfo_screenwidth, winfo_screenheight
Screen == [w |-> 2, h |-> 2]
\* raw wheel deltas
Deltas == {0, 1, -1, 45, -45, 119, -119, 120, -120, 130, -130, 240, -240}

ApiMsgs == {[type |-> "click", button |-> 1]}

VARIABLES
    pc,          \* per thread: where _run/_connect_loop stands
    slept,       \* per thread: time units spent in asyncio.sleep(1)
    loopWs,      \* per thread: the ws of its `async with` block (0: none)
    nConns,      \* connections opened so far; their ids are 1..nConns
    wsOpen,      \* the connections that are open
    ws_,         \* JsonTransport._ws (0: None)
    connected,   \* JsonTransport.connected
    loop_,       \* JsonTransport._loop (0: None)
    url_,        \* JsonTransport._url
    workq,       \* per event loop: coroutines handed over by run_coroutine_threadsafe
    afterq,      \* root.after(0, _update_status, connected) callbacks, in order
    statusLabel, \* text of status_label
    lastNote,    \* history: the last notification _update_status applied
    stopped,     \* history: disconnect() has returned and start() was not called since
    tally,       \* history: counts of a run made of one start() and failures only
    written,     \* history: the last message written to a connection
    mouse_enabled,  \* VKeyboardApp._mouse_enabled
    mouse_active,   \* VKeyboardApp._mouse_active
    mouse_last_pos, \* VKeyboardApp._mouse_last_pos (<<>>: None)
    bound,          \* the text widget has the click and wheel handlers bound
    pollPending,    \* root.after(16, self._mouse_poll) callbacks not yet run
    focused,        \* the window has the keyboard focus
    lastEvt,        \* history: the last event handed to transport.send
    quiet,          \* history: focus was lost while armed; no toggle or focus-in since
    sampled,        \* history: what the last _mouse_poll past its guard read and did
    has_placeholder, \* VKeyboardApp._has_placeholder
    lastKey         \* history: the last key press _on_key_press handled

ptrVars == <<mouse_enabled, mouse_active, mouse_last_pos, bound, pollPending,
             quiet, sampled>>

keyVars == <<has_placeholder, lastKey>>

gui == <<ptrVars, focused, lastEvt, keyVars>>

vars == <<pc, slept, loopWs, nConns, wsOpen, ws_, connected, loop_, url_,
          workq, afterq, statusLabel, lastNote, stopped, tally, written, gui>>

NoTally == [ok |-> FALSE, fails |-> 0, discs |-> 0, conns |-> 0]
NoWrite == [any |-> FALSE, live |-> FALSE, afterStop |-> FALSE]
NoEvt == [msg |-> [type |-> "none"], raw |-> <<>>, focused |-> FALSE,
          enabled |-> FALSE, n |-> 0]
NoSample == [pos |-> <<>>, last |-> <<>>, emitted |-> FALSE]
NoKey == [any |-> FALSE, keysym |-> <<>>, char |-> <<>>, state |-> 0,
          code |-> <<>>, sent |-> FALSE]

\* ------------------------------------------------------------ pure helpers
RECURSIVE LStrip(_)
LStrip(s) == IF s # <<>> /\ Head(s) = " " THEN LStrip(Tail(s)) ELSE s

RECURSIVE RStrip(_)
RStrip(s) == IF s # <<>> /\ s[Len(s)] = " " THEN RStrip(SubSeq(s, 1, Len(s) - 1)) ELSE s

\* str.strip()
Strip(s) == RStrip(LStrip(s))

\* "://" in host
HasScheme(s) == \E i \in 1..Len(s) : s[i] \in Schemes

\* host = f"ws://{host}" unless it names a scheme
ToUrl(host) == IF HasScheme(host) THEN host ELSE <<"ws://">> \o host

\* ws_connect accepts the address: a scheme, then a non-empty host without blanks
ValidUri(u) ==
    /\ Len(u) >= 2
    /\ u[1] \in Schemes
    /\ \A i \in 2..Len(u) : u[i] # " " /\ u[i] \notin Schemes

Started == {l \in Loops : pc[l] # "none"}

Live == wsOpen # {}

\* the thread whose `async with` block holds connection c
Owner(c) == CHOOSE l \in Loops : loopWs[l] = c

\* ------------------------------------------------------------------- Init
Init ==
    /\ pc = [l \in Loops |-> "none"]
    /\ slept = [l \in Loops |-> 0]
    /\ loopWs = [l \in Loops |-> 0]
    /\ nConns = 0
    /\ wsOpen = {}
    /\ ws_ = 0
    /\ connected = FALSE
    /\ loop_ = 0
    /\ url_ = EmptyUrl
    /\ workq = [l \in Loops |-> <<>>]
    /\ afterq = <<>>
    /\ statusLabel = "Disconnected"
    /\ lastNote = "none"
    /\ stopped = FALSE
    /\ tally = NoTally
    /\ written = NoWrite
    /\ mouse_enabled = FALSE
    /\ mouse_active = FALSE
    /\ mouse_last_pos = <<>>
    /\ bound = FALSE
    /\ pollPending = 0
    /\ focused = FALSE
    /\ lastEvt = NoEvt
    /\ quiet = FALSE
    /\ sampled = NoSample
    /\ has_placeholder = TRUE
    /\ lastKey = NoKey

\* ------------------------------------------------ JsonTransport, UI thread
\* start(url): remember the url and start one more thread running _run
StartThread(url) ==
    /\ Cardinality(Started) < MaxLoops
    /\ LET l == Cardinality(Started) + 1 IN
        /\ url_' = url
        /\ pc' = [pc EXCEPT ![l] = "run"]
        /\ tally' = IF Started = {} THEN [NoTally EXCEPT !.ok = TRUE] ELSE NoTally
    /\ stopped' = FALSE

Start(url) ==
    /\ StartThread(url)
    /\ UNCHANGED <<slept, loopWs, nConns, wsOpen, ws_, connected, loop_, workq,
                   afterq, statusLabel, lastNote, written, gui>>

\* `if ws and self._loop`
SendReady(ws, loop) == ws # 0 /\ loop # 0

\* the connection a queued _send(ws, obj) writes to
SendWsLate(item) == ws_
SendWs(item) == item.ws

\* send(obj): hand _send(ws, obj) to the event loop, or do nothing
TransportSend(msg) ==
    IF SendReady(ws_, loop_)
    THEN /\ Len(workq[loop_]) < MaxWorkQ
         /\ workq' = [workq EXCEPT ![loop_] = Append(@,
                [op |-> "send", ws |-> ws_, msg |-> msg,
                 live |-> Live, afterStop |-> stopped])]
    ELSE UNCHANGED workq

Send(msg) ==
    /\ TransportSend(msg)
    /\ UNCHANGED <<pc, slept, loopWs, nConns, wsOpen, ws_, connected, loop_, url_,
                   afterq, statusLabel, lastNote, stopped, tally, written, gui>>

\* disconnect(): hand ws.close() to the event loop, or do nothing
TransportDisconnect ==
    /\ IF SendReady(ws_, loop_)
       THEN /\ Len(workq[loop_]) < MaxWorkQ
            /\ workq' = [workq EXCEPT ![loop_] = Append(@,
                   [op |-> "close", ws |-> ws_, msg |-> [type |-> "close"],
                    live |-> FALSE, afterStop |-> FALSE])]
       ELSE UNCHANGED workq
    /\ stopped' = TRUE

Disconnect ==
    /\ TransportDisconnect
    /\ UNCHANGED <<pc, slept, loopWs, nConns, wsOpen, ws_, connected, loop_, url_,
                   afterq, statusLabel, lastNote, tally, written, gui>>

\* ------------------------------------------- VKeyboardApp._toggle_connection
ToggleConnection(host) ==
    IF connected
    THEN /\ TransportDisconnect
         /\ UNCHANGED <<pc, slept, loopWs, nConns, wsOpen, ws_, connected, loop_,
                        url_, afterq, statusLabel, lastNote, tally, written, gui>>
    ELSE IF Strip(host) = <<>>
    THEN UNCHANGED vars
    ELSE /\ StartThread(ToUrl(Strip(host)))
         /\ statusLabel' = "Connecting..."
         /\ UNCHANGED <<slept, loopWs, nConns, wsOpen, ws_, connected, loop_,
                        workq, afterq, lastNote, written, gui>>

\* --------------------------------------- JsonTransport, background threads
\* _run: the thread makes its event loop and publishes it in self._loop
Run(l) ==
    /\ pc[l] = "run"
    /\ loop_' = l
    /\ pc' = [pc EXCEPT ![l] = "connecting"]
    /\ UNCHANGED <<slept, loopWs, nConns, wsOpen, ws_, connected, url_, workq,
                   afterq, statusLabel, lastNote, stopped, tally, written, gui>>

\* ws_connect(self._url) succeeds; `self._ws = ws`
ConnectSuccess(l) ==
    /\ pc[l] = "connecting"
    /\ ValidUri(url_)
    /\ nConns < MaxConns
    /\ nConns' = nConns + 1
    /\ wsOpen' = wsOpen \cup {nConns + 1}
    /\ loopWs' = [loopWs EXCEPT ![l] = nConns + 1]
    /\ ws_' = nConns + 1
    /\ pc' = [pc EXCEPT ![l] = "l129"]
    /\ tally' = NoTally
    /\ UNCHANGED <<slept, connected, loop_, url_, workq, afterq, statusLabel,
                   lastNote, stopped, written, gui>>

\* ws_connect raises OSError or a WebSocketException (InvalidURI among them)
ConnectFail(l) ==
    /\ pc[l] = "connecting"
    /\ tally.ok => tally.fails < MaxFails
    /\ pc' = [pc EXCEPT ![l] = "fin140"]
    /\ tally' = IF tally.ok THEN [tally EXCEPT !.fails = @ + 1] ELSE tally
    /\ UNCHANGED <<slept, loopWs, nConns, wsOpen, ws_, connected, loop_, url_,
                   workq, afterq, statusLabel, lastNote, stopped, written, gui>>

\* `self.connected = True`
SetConnected(l) ==
    /\ pc[l] = "l129"
    /\ connected' = TRUE
    /\ pc' = [pc EXCEPT ![l] = "l130"]
    /\ UNCHANGED <<slept, loopWs, nConns, wsOpen, ws_, loop_, url_, workq,
                   afterq, statusLabel, lastNote, stopped, tally, written, gui>>

\* on_status_change(connected): root.after(0, self._update_status, connected)
OnStatusChange(c) ==
    /\ Len(afterq) < MaxAfterQ
    /\ afterq' = Append(afterq, c)

\* `self.on_status_change(True)`, then `await ws.recv()`
NotifyConnected(l) ==
    /\ pc[l] = "l130"
    /\ OnStatusChange(TRUE)
    /\ pc' = [pc EXCEPT ![l] = "recv"]
    /\ tally' = IF tally.ok THEN [tally EXCEPT !.conns = @ + 1] ELSE tally
    /\ UNCHANGED <<slept, loopWs, nConns, wsOpen, ws_, connected, loop_, url_,
                   workq, statusLabel, lastNote, stopped, written, gui>>

\* the peer closes the connection, or the transport under it fails
ConnLost(c) ==
    /\ c \in wsOpen
    /\ wsOpen' = wsOpen \ {c}
    /\ UNCHANGED <<pc, slept, loopWs, nConns, ws_, connected, loop_, url_, workq,
                   afterq, statusLabel, lastNote, stopped, tally, written, gui>>

\* ws.recv() raises ConnectionClosed: `pass`, leave the `async with` block
RecvClosed(l) ==
    /\ pc[l] = "recv"
    /\ loopWs[l] \notin wsOpen
    /\ pc' = [pc EXCEPT ![l] = "fin140"]
    /\ UNCHANGED <<slept, loopWs, nConns, wsOpen, ws_, connected, loop_, url_,
                   workq, afterq, statusLabel, lastNote, stopped, tally, written, gui>>

\* where ws.recv() returning a message leaves the thread: past the `try`, so
\* out of the `async with` block, which closes the connection
AfterRecvPc == "fin140"

\* ws.recv() returns a message of the peer
RecvMessage(l) ==
    /\ pc[l] = "recv"
    /\ loopWs[l] \in wsOpen
    /\ pc' = [pc EXCEPT ![l] = AfterRecvPc]
    /\ wsOpen' = IF AfterRecvPc = "recv" THEN wsOpen ELSE wsOpen \ {loopWs[l]}
    /\ UNCHANGED <<slept, loopWs, nConns, ws_, connected, loop_, url_, workq,
                   afterq, statusLabel, lastNote, stopped, tally, written, gui>>

\* finally: `self._ws = None`
FinallyWs(l) ==
    /\ pc[l] = "fin140"
    /\ ws_' = 0
    /\ pc' = [pc EXCEPT ![l] = "fin141"]
    /\ UNCHANGED <<slept, loopWs, nConns, wsOpen, connected, loop_, url_, workq,
                   afterq, statusLabel, lastNote, stopped, tally, written, gui>>

\* finally: `self.connected = False`
FinallyConnected(l) ==
    /\ pc[l] = "fin141"
    /\ connected' = FALSE
    /\ pc' = [pc EXCEPT ![l] = "fin142"]
    /\ UNCHANGED <<slept, loopWs, nConns, wsOpen, ws_, loop_, url_, workq,
                   afterq, statusLabel, lastNote, stopped, tally, written, gui>>

\* finally: `self.on_status_change(False)`, then `await asyncio.sleep(1)`
FinallyNotify(l) ==
    /\ pc[l] = "fin142"
    /\ OnStatusChange(FALSE)
    /\ pc' = [pc EXCEPT ![l] = "sleep"]
    /\ slept' = [slept EXCEPT ![l] = 0]
    /\ tally' = IF tally.ok THEN [tally EXCEPT !.discs = @ + 1] ELSE tally
    /\ UNCHANGED <<loopWs, nConns, wsOpen, ws_, connected, loop_, url_, workq,
                   statusLabel, lastNote, stopped, written, gui>>

\* a time unit passes in asyncio.sleep(1)
Tick(l) ==
    /\ pc[l] = "sleep"
    /\ slept[l] < RetryDelay
    /\ slept' = [slept EXCEPT ![l] = @ + 1]
    /\ UNCHANGED <<pc, loopWs, nConns, wsOpen, ws_, connected, loop_, url_, workq,
                   afterq, statusLabel, lastNote, stopped, tally, written, gui>>

\* asyncio.sleep(1) is over
SleepOverNow(l) == TRUE
SleepOver(l) == slept[l] >= RetryDelay

\* where the thread goes after the sleep: `while True`
AfterSleepPcStop == "done"
AfterSleepPc == "connecting"

SleepDone(l) ==
    /\ pc[l] = "sleep"
    /\ SleepOver(l)
    /\ pc' = [pc EXCEPT ![l] = AfterSleepPc]
    /\ UNCHANGED <<slept, loopWs, nConns, wsOpen, ws_, connected, loop_, url_,
                   workq, afterq, statusLabel, lastNote, stopped, tally, written, gui>>

\* the event loop of thread l runs the coroutine at the head of its queue:
\* _send(ws, obj), whose exceptions are swallowed, or ws.close(). A connection
\* opened on another event loop is not safe to drive from this one: the call
\* may work or raise. The loop runs it while _connect_loop waits in an await.
ExecWork(l, works) ==
    /\ workq[l] # <<>>
    /\ pc[l] \in {"connecting", "recv", "sleep"}
    /\ LET item == Head(workq[l])
           c == IF item.op = "send" THEN SendWs(item) ELSE item.ws
           ok == c \in wsOpen /\ (Owner(c) = l \/ works) IN
        /\ workq' = [workq EXCEPT ![l] = Tail(@)]
        /\ IF item.op = "send"
           THEN /\ written' = IF ok
                              THEN [any |-> TRUE, live |-> item.live,
                                    afterStop |-> item.afterStop]
                              ELSE written
                /\ UNCHANGED wsOpen
           ELSE /\ wsOpen' = IF ok THEN wsOpen \ {c} ELSE wsOpen
                /\ UNCHANGED written
    /\ UNCHANGED <<pc, slept, loopWs, nConns, ws_, connected, loop_, url_, afterq,
                   statusLabel, lastNote, stopped, tally, gui>>

\* ----------------------------------------- VKeyboardApp._update_status
UpdateStatus ==
    /\ afterq # <<>>
    /\ statusLabel' = IF Head(afterq) THEN "Connected" ELSE "Disconnected"
    /\ lastNote' = IF Head(afterq) THEN "Connected" ELSE "Disconnected"
    /\ afterq' = Tail(afterq)
    /\ UNCHANGED <<pc, slept, loopWs, nConns, wsOpen, ws_, connected, loop_, url_,
                   workq, stopped, tally, written, gui>>

\* ------------------------------------------------- VKeyboardApp, pointer
netRest == <<pc, slept, loopWs, nConns, wsOpen, ws_, connected, loop_, url_,
             afterq, statusLabel, lastNote, stopped, tally, written>>

\* max(0.0, min(1.0, v / s)), the quotient kept as <<numerator, denominator>>
Min1Off(q) == q
Min1(q) == IF q[1] >= q[2] THEN <<1, 1>> ELSE q
Max0(q) == IF q[1] <= 0 THEN <<0, 1>> ELSE q
Clamp01(v, s) == Max0(Min1(<<v, s>>))

MoveMsg(p) ==
    [type |-> "mousemove_abs", x |-> Clamp01(p[1], Screen.w), y |-> Clamp01(p[2], Screen.h)]

\* steps of _mouse_scroll: `//` rounds towards minus infinity, as \div does
Abs(n) == IF n < 0 THEN -n ELSE n
ScrollStepsRaw(delta) == delta
ScrollSteps(delta) == IF Abs(delta) >= Notch THEN delta \div Notch ELSE delta

\* self.transport.send(msg), with the raw input, the focus and the toggle as
\* they are then
Emit(msg, raw, f, e) ==
    /\ TransportSend(msg)
    /\ lastEvt' = [msg |-> msg, raw |-> raw, focused |-> f, enabled |-> e,
                   n |-> 1 - lastEvt.n]

\* `(x, y) != self._mouse_last_pos`
MovedAlways(p) == TRUE
Moved(p) == p # mouse_last_pos

\* the body of _mouse_poll past its guard, reading position p
Sample(p, f, e) ==
    IF Moved(p)
    THEN /\ mouse_last_pos' = p
         /\ Emit(MoveMsg(p), p, f, e)
         /\ sampled' = [pos |-> p, last |-> mouse_last_pos, emitted |-> TRUE]
    ELSE /\ sampled' = [pos |-> p, last |-> mouse_last_pos, emitted |-> FALSE]
         /\ UNCHANGED <<mouse_last_pos, workq, lastEvt>>

\* _activate_mouse, its first _mouse_poll reading position p
ActivateMouse(p, f, e) ==
    IF mouse_active
    THEN UNCHANGED <<mouse_active, bound, mouse_last_pos, pollPending, workq,
                     lastEvt, sampled>>
    ELSE /\ pollPending < MaxPending
         /\ mouse_active' = TRUE
         /\ bound' = TRUE
         /\ mouse_last_pos' = p
         /\ Emit(MoveMsg(p), p, f, e)
         /\ sampled' = [pos |-> p, last |-> <<>>, emitted |-> TRUE]
         /\ pollPending' = pollPending + 1

\* _deactivate_mouse
DeactivateMouse ==
    /\ mouse_active' = FALSE
    /\ bound' = IF mouse_active THEN FALSE ELSE bound
    /\ UNCHANGED <<mouse_last_pos, pollPending, workq, lastEvt, sampled>>

\* _toggle_mouse: the Mouse button or F9
ToggleMouse(p) ==
    /\ mouse_enabled' = ~mouse_enabled
    /\ IF ~mouse_enabled
       THEN ActivateMouse(p, focused, TRUE)
       ELSE DeactivateMouse
    /\ quiet' = FALSE
    /\ UNCHANGED <<focused, keyVars, netRest>>

\* `if self._mouse_enabled` of _on_focus_in
FocusInArmsAlways == TRUE
FocusInArms == mouse_enabled

\* <FocusIn>: _on_focus_in
FocusIn(p) ==
    /\ ~focused
    /\ focused' = TRUE
    /\ IF FocusInArms
       THEN ActivateMouse(p, TRUE, mouse_enabled)
       ELSE UNCHANGED <<mouse_active, bound, mouse_last_pos, pollPending, workq,
                        lastEvt, sampled>>
    /\ quiet' = FALSE
    /\ UNCHANGED <<mouse_enabled, keyVars, netRest>>

\* what _on_focus_out does to the sampler
FocusOutKeepsArmed == UNCHANGED <<mouse_active, bound, mouse_last_pos, pollPending,
                                  workq, lastEvt, sampled>>
FocusOutDisarms == DeactivateMouse

\* <FocusOut>: _on_focus_out
FocusOut ==
    /\ focused
    /\ focused' = FALSE
    /\ FocusOutDisarms
    /\ quiet' = (mouse_active \/ quiet)
    /\ UNCHANGED <<mouse_enabled, keyVars, netRest>>

\* a root.after(16, self._mouse_poll) callback runs, reading position p
MousePoll(p) ==
    /\ pollPending > 0
    /\ IF ~mouse_active
       THEN /\ pollPending' = pollPending - 1
            /\ UNCHANGED <<mouse_last_pos, workq, lastEvt, sampled>>
       ELSE /\ Sample(p, focused, mouse_enabled)
            /\ UNCHANGED pollPending
    /\ UNCHANGED <<mouse_enabled, mouse_active, bound, focused, quiet, keyVars,
                   netRest>>

\* <Button-1>: _mouse_click_left
MouseClickLeft ==
    /\ bound
    /\ Emit([type |-> "click", button |-> 1], <<>>, focused, mouse_enabled)
    /\ UNCHANGED <<mouse_enabled, mouse_active, mouse_last_pos, bound, pollPending,
                   focused, quiet, sampled, keyVars, netRest>>

\* <Button-2>, <Button-3>: _mouse_click_right
MouseClickRight ==
    /\ bound
    /\ Emit([type |-> "click", button |-> 3], <<>>, focused, mouse_enabled)
    /\ UNCHANGED <<mouse_enabled, mouse_active, mouse_last_pos, bound, pollPending,
                   focused, quiet, sampled, keyVars, netRest>>

\* <MouseWheel>: _mouse_scroll
MouseScroll(delta) ==
    /\ bound
    /\ IF ScrollSteps(delta) # 0
       THEN Emit([type |-> "scroll", dy |-> ScrollSteps(delta)], <<delta>>,
                 focused, mouse_enabled)
       ELSE UNCHANGED <<workq, lastEvt>>
    /\ UNCHANGED <<mouse_enabled, mouse_active, mouse_last_pos, bound, pollPending,
                   focused, quiet, sampled, keyVars, netRest>>

\* ------------------------------------------------ VKeyboardApp, keyboard
\* Text is a sequence of characters; "e^" and "E^" stand for the letter e with
\* an acute accent, "CR", "TAB", "ESC" and "^S" for control characters.
Lowers == <<"a", "b", "c", "d", "e", "f", "g", "h", "i", "j", "k", "l", "m", "n", "o", "p", "q", "r", "s", "t", "u", "v", "w", "x", "y", "z", "e^">>
Uppers == <<"A", "B", "C", "D", "E", "F", "G", "H", "I", "J", "K", "L", "M", "N", "O", "P", "Q", "R", "S", "T", "U", "V", "W", "X", "Y", "Z", "E^">>
DigitChars == {"0", "1", "2", "3", "4", "5", "6", "7", "8", "9"}
ControlChars == {"CR", "TAB", "ESC", "^S"}

Range(f) == {f[i] : i \in DOMAIN f}

\* str.isalpha, str.isdigit, str.isprintable and str.upper, of one character
IsAlpha(c) == c \in Range(Lowers) \cup Range(Uppers)
IsDigit(c) == c \in DigitChars
IsPrintable(c) == c \notin ControlChars
Upper(c) ==
    IF c \in Range(Lowers)
    THEN Uppers[CHOOSE i \in DOMAIN Lowers : Lowers[i] = c]
    ELSE c

\* str.isprintable of a text
AllPrintable(t) == \A i \in 1..Len(t) : IsPrintable(t[i])

KEYSYM_TO_CODE == <<
    <<<<"U", "p">>, <<"A", "r", "r", "o", "w", "U", "p">>>>,
    <<<<"D", "o", "w", "n">>, <<"A", "r", "r", "o", "w", "D", "o", "w", "n">>>>,
    <<<<"L", "e", "f", "t">>, <<"A", "r", "r", "o", "w", "L", "e", "f", "t">>>>,
    <<<<"R", "i", "g", "h", "t">>, <<"A", "r", "r", "o", "w", "R", "i", "g", "h", "t">>>>,
    <<<<"H", "o", "m", "e">>, <<"H", "o", "m", "e">>>>,
    <<<<"E", "n", "d">>, <<"E", "n", "d">>>>,
    <<<<"P", "r", "i", "o", "r">>, <<"P", "a", "g", "e", "U", "p">>>>,
    <<<<"N", "e", "x", "t">>, <<"P", "a", "g", "e", "D", "o", "w", "n">>>>,
    <<<<"B", "a", "c", "k", "S", "p", "a", "c", "e">>, <<"B", "a", "c", "k", "s", "p", "a", "c", "e">>>>,
    <<<<"D", "e", "l", "e", "t", "e">>, <<"D", "e", "l", "e", "t", "e">>>>,
    <<<<"R", "e", "t", "u", "r", "n">>, <<"E", "n", "t", "e", "r">>>>,
    <<<<"T", "a", "b">>, <<"T", "a", "b">>>>,
    <<<<"E", "s", "c", "a", "p", "e">>, <<"E", "s", "c", "a", "p", "e">>>>,
    <<<<"s", "p", "a", "c", "e">>, <<"S", "p", "a", "c", "e">>>>,
    <<<<"F", "1">>, <<"F", "1">>>>,
    <<<<"F", "2">>, <<"F", "2">>>>,
    <<<<"F", "3">>, <<"F", "3">>>>,
    <<<<"F", "4">>, <<"F", "4">>>>,
    <<<<"F", "5">>, <<"F", "5">>>>,
    <<<<"F", "6">>, <<"F", "6">>>>,
    <<<<"F", "7">>, <<"F", "7">>>>,
    <<<<"F", "8">>, <<"F", "8">>>>,
    <<<<"F", "9">>, <<"F", "9">>>>,
    <<<<"F", "1", "0">>, <<"F", "1", "0">>>>,
    <<<<"F", "1", "1">>, <<"F", "1", "1">>>>,
    <<<<"F", "1", "2">>, <<"F", "1", "2">>>>,
    <<<<"b", "r", "a", "c", "k", "e", "t", "l", "e", "f", "t">>, <<"B", "r", "a", "c", "k", "e", "t", "L", "e", "f", "t">>>>,
    <<<<"b", "r", "a", "c", "k", "e", "t", "r", "i", "g", "h", "t">>, <<"B", "r", "a", "c", "k", "e", "t", "R", "i", "g", "h", "t">>>>,
    <<<<"b", "a", "c", "k", "s", "l", "a", "s", "h">>, <<"B", "a", "c", "k", "s", "l", "a", "s", "h">>>>,
    <<<<"s", "e", "m", "i", "c", "o", "l", "o", "n">>, <<"S", "e", "m", "i", "c", "o", "l", "o", "n">>>>,
    <<<<"a", "p", "o", "s", "t", "r", "o", "p", "h", "e">>, <<"Q", "u", "o", "t", "e">>>>,
    <<<<"c", "o", "m", "m", "a">>, <<"C", "o", "m", "m", "a">>>>,
    <<<<"p", "e", "r", "i", "o", "d">>, <<"P", "e", "r", "i", "o", "d">>>>,
    <<<<"s", "l", "a", "s", "h">>, <<"S", "l", "a", "s", "h">>>>,
    <<<<"g", "r", "a", "v", "e">>, <<"B", "a", "c", "k", "q", "u", "o", "t", "e">>>>,
    <<<<"m", "i", "n", "u", "s">>, <<"M", "i", "n", "u", "s">>>>,
    <<<<"e", "q", "u", "a", "l">>, <<"E", "q", "u", "a", "l">>>>>>

MODIFIER_KEYSYMS == {
    <<"S", "h", "i", "f", "t", "_", "L">>,
    <<"S", "h", "i", "f", "t", "_", "R">>,
    <<"C", "o", "n", "t", "r", "o", "l", "_", "L">>,
    <<"C", "o", "n", "t", "r", "o", "l", "_", "R">>,
    <<"A", "l", "t", "_", "L">>,
    <<"A", "l", "t", "_", "R">>,
    <<"M", "e", "t", "a", "_", "L">>,
    <<"M", "e", "t", "a", "_", "R">>,
    <<"S", "u", "p", "e", "r", "_", "L">>,
    <<"S", "u", "p", "e", "r", "_", "R">>}

\* raw key presses: <<event.keysym, event.char>>
KeyInputs == {
    <<<<"a">>, <<"a">>>>,
    <<<<"s">>, <<"^S">>>>,
    <<<<"5">>, <<"5">>>>,
    <<<<"U", "p">>, <<>>>>,
    <<<<"m", "i", "n", "u", "s">>, <<"-">>>>,
    <<<<"S", "h", "i", "f", "t", "_", "R">>, <<"A">>>>,
    <<<<"C", "o", "n", "t", "r", "o", "l", "_", "R">>, <<>>>>,
    <<<<"e", "x", "c", "l", "a", "m">>, <<"!">>>>,
    <<<<"e", "a", "c", "u", "t", "e">>, <<"e^">>>>,
    <<<<"C", "a", "p", "s", "_", "L", "o", "c", "k">>, <<>>>>,
    <<<<>>, <<"!">>>>}

\* event.state bitmasks: Command with Shift, with Control, with Option
KeyStates == {9, 12, 24}

\* None, and the empty text: `if not code` takes both alike
None == <<>>

InTable(keysym) == \E i \in DOMAIN KEYSYM_TO_CODE : KEYSYM_TO_CODE[i][1] = keysym

TableCode(keysym) ==
    KEYSYM_TO_CODE[CHOOSE i \in DOMAIN KEYSYM_TO_CODE : KEYSYM_TO_CODE[i][1] = keysym][2]

\* `return f"Key{char.upper()}" if char.isalpha() else keysym`
FallbackCodeDrop(keysym, char) ==
    IF IsAlpha(char[1]) THEN <<"K", "e", "y", Upper(char[1])>> ELSE None
FallbackCode(keysym, char) ==
    IF IsAlpha(char[1]) THEN <<"K", "e", "y", Upper(char[1])>> ELSE keysym

\* keysym_to_code(keysym, char)
KeysymToCode(keysym, char) ==
    IF InTable(keysym) THEN TableCode(keysym)
    ELSE IF Len(keysym) = 1 /\ IsAlpha(keysym[1])
    THEN <<"K", "e", "y", Upper(keysym[1])>>
    ELSE IF Len(keysym) = 1 /\ IsDigit(keysym[1])
    THEN <<"D", "i", "g", "i", "t", keysym[1]>>
    ELSE IF Len(char) = 1 /\ IsPrintable(char[1])
    THEN FallbackCode(keysym, char)
    ELSE None

\* `state & mask`
Bit(state, mask) == (state \div mask) % 2 = 1

\* `if keysym in MODIFIER_KEYSYMS: return`
IsModifierNever(keysym) == FALSE
IsModifier(keysym) == keysym \in MODIFIER_KEYSYMS

\* the keydown message of _on_key_press
KeyMsg(keysym, char, state, code) ==
    [type |-> "keydown",
     key |-> IF char # <<>> /\ AllPrintable(char) THEN char ELSE keysym,
     code |-> code,
     shift |-> Bit(state, 1),
     ctrl |-> Bit(state, 4),
     alt |-> Bit(state, 16),
     meta |-> Bit(state, 8)]

\* <KeyPress> on the text widget: _on_key_press. The feedback text it inserts
\* belongs to the window surface and is not kept.
KeyPress(k, state) ==
    /\ focused
    /\ has_placeholder' = FALSE
    /\ LET keysym == k[1]
           char == k[2]
           code == IF IsModifier(keysym) THEN None ELSE KeysymToCode(keysym, char) IN
        IF code = None
        THEN /\ lastKey' = [any |-> TRUE, keysym |-> keysym, char |-> char,
                            state |-> state, code |-> code, sent |-> FALSE]
             /\ UNCHANGED <<workq, lastEvt>>
        ELSE /\ Emit(KeyMsg(keysym, char, state, code), keysym, focused, mouse_enabled)
             /\ lastKey' = [any |-> TRUE, keysym |-> keysym, char |-> char,
                            state |-> state, code |-> code, sent |-> TRUE]
    /\ UNCHANGED <<ptrVars, focused, netRest>>

\* the Clear button: _clear_text empties the text and shows the placeholder
ClearText ==
    /\ has_placeholder' = TRUE
    /\ UNCHANGED <<ptrVars, focused, lastEvt, lastKey, workq, netRest>>

\* ------------------------------------------------------------ specification
LoopStep(l) ==
    \/ Run(l)
    \/ ConnectSuccess(l)
    \/ ConnectFail(l)
    \/ SetConnected(l)
    \/ NotifyConnected(l)
    \/ RecvClosed(l)
    \/ RecvMessage(l)
    \/ FinallyWs(l)
    \/ FinallyConnected(l)
    \/ FinallyNotify(l)
    \/ Tick(l)
    \/ SleepDone(l)

Next ==
    \/ \E u \in Urls : Start(u)
    \/ \E m \in ApiMsgs : Send(m)
    \/ Disconnect
    \/ \E h \in HostInputs : ToggleConnection(h)
    \/ \E l \in Loops : LoopStep(l)
    \/ \E l \in Loops, works \in BOOLEAN : ExecWork(l, works)
    \/ \E c \in Conns : ConnLost(c)
    \/ UpdateStatus

Spec == Init /\ [][Next]_vars

\* The client used with one start(): no second start() while a thread runs.
NextOne ==
    \/ \E u \in Urls : Started = {} /\ Start(u)
    \/ \E m \in ApiMsgs : Send(m)
    \/ Disconnect
    \/ \E h \in HostInputs : (connected \/ Started = {}) /\ ToggleConnection(h)
    \/ \E l \in Loops : LoopStep(l)
    \/ \E l \in Loops, works \in BOOLEAN : ExecWork(l, works)
    \/ \E c \in Conns : ConnLost(c)
    \/ UpdateStatus

SpecOne == Init /\ [][NextOne]_vars

\* The event loop keeps running its coroutines and the Tk main loop its
\* callbacks; time passes.
FairOne ==
    /\ \A l \in Loops :
        /\ WF_vars(SetConnected(l))
        /\ WF_vars(NotifyConnected(l))
        /\ WF_vars(RecvClosed(l))
        /\ WF_vars(FinallyWs(l))
        /\ WF_vars(FinallyConnected(l))
        /\ WF_vars(FinallyNotify(l))
        /\ WF_vars(Tick(l))
        /\ WF_vars(SleepDone(l))
    /\ WF_vars(UpdateStatus)

LiveOne == SpecOne /\ FairOne

\* The pointer relay, the transport either never started or connected.
SteadyConnected ==
    /\ pc = [l \in Loops |-> IF l = 1 THEN "recv" ELSE "none"]
    /\ slept = [l \in Loops |-> 0]
    /\ loopWs = [l \in Loops |-> IF l = 1 THEN 1 ELSE 0]
    /\ nConns = 1
    /\ wsOpen = {1}
    /\ ws_ = 1
    /\ connected = TRUE
    /\ loop_ = 1
    /\ url_ = GoodUrl
    /\ workq = [l \in Loops |-> <<>>]
    /\ afterq = <<>>
    /\ statusLabel = "Connected"
    /\ lastNote = "Connected"
    /\ stopped = FALSE
    /\ tally = NoTally
    /\ written = NoWrite

GuiFresh ==
    /\ mouse_enabled = FALSE
    /\ mouse_active = FALSE
    /\ mouse_last_pos = <<>>
    /\ bound = FALSE
    /\ pollPending = 0
    /\ focused = FALSE
    /\ lastEvt = NoEvt
    /\ quiet = FALSE
    /\ sampled = NoSample
    /\ has_placeholder = TRUE
    /\ lastKey = NoKey

InitGui == Init \/ (SteadyConnected /\ GuiFresh)

NextGui ==
    \/ \E p \in Points : ToggleMouse(p)
    \/ \E p \in Points : FocusIn(p)
    \/ FocusOut
    \/ \E p \in Points : MousePoll(p)
    \/ MouseClickLeft
    \/ MouseClickRight
    \/ \E d \in Deltas : MouseScroll(d)
    \/ \E l \in Loops, works \in BOOLEAN : ExecWork(l, works)

SpecGui == InitGui /\ [][NextGui]_vars

\* The keyboard relay, the pointer relay left off; the transport either never
\* started or connected.
NextKeys ==
    \/ \E k \in KeyInputs, st \in KeyStates : KeyPress(k, st)
    \/ ClearText
    \/ \E p \in Points : FocusIn(p)
    \/ FocusOut
    \/ \E l \in Loops, works \in BOOLEAN : ExecWork(l, works)

SpecKeys == InitGui /\ [][NextKeys]_vars

TypeOK ==
    /\ pc \in [Loops -> {"none", "run", "connecting", "l129", "l130", "recv",
                         "fin140", "fin141", "fin142", "sleep"}]
    /\ slept \in [Loops -> 0..RetryDelay]
    /\ loopWs \in [Loops -> 0..MaxConns]
    /\ nConns \in 0..MaxConns
    /\ wsOpen \subseteq 1..nConns
    /\ ws_ \in 0..nConns
    /\ connected \in BOOLEAN
    /\ loop_ \in {0} \cup Loops
    /\ url_ \in Seq({" ", "h", "1", "h:1", "ws://"})
    /\ afterq \in Seq(BOOLEAN)
    /\ Len(afterq) <= MaxAfterQ
    /\ \A l \in Loops : Len(workq[l]) <= MaxWorkQ

\* ------------------------------------------------------------------ claims
PointerTypes == {"mousemove_abs", "click", "scroll"}

InFinally(l) == pc[l] \in {"fin140", "fin141", "fin142"}

\* C1: at most one reconnect loop (one connection attempt or live connection)
\* exists at any time: start() while a loop is already running is a no-op and
\* creates no second loop.
C1_SingleLoop == Cardinality(Started) <= 1

\* C2: once disconnect() has returned, and until start() is called again, no
\* connection attempt is started and no Connected notification is delivered.
C2_StopSuppressesReconnect ==
    [][(stopped /\ stopped') =>
        /\ \A l \in Loops : pc'[l] = "connecting" => pc[l] = "connecting"
        /\ afterq' # Append(afterq, TRUE)]_vars

\* C3: a message sent while no connection is live is never written to any
\* connection, a connection established later included.
C3_NoQueuedDelivery == written.any => written.live

\* C3 witness: a message sent while no connection was live is still waiting on
\* the event loop when the next connection is open.
C3_Witness ==
    /\ nConns = 2
    /\ wsOpen = {2}
    /\ ws_ = 2
    /\ ~written.any
    /\ \E l \in Loops :
        /\ workq[l] # <<>>
        /\ Head(workq[l]).op = "send"
        /\ ~Head(workq[l]).live

\* C4: a message sent after disconnect() has returned (and before the next
\* start()) is never written to a connection.
C4_NoSendAfterStop == written.any => ~written.afterStop

\* C5: in a run of one start() and n connect failures, the listener has got n
\* Disconnected notifications (n - 1 while the n-th failure is being handled)
\* and no Connected one, and a thread re-attempts only out of a sleep that
\* lasted the retry delay since its Disconnected notification.
C5_Counts ==
    tally.ok =>
        /\ tally.conns = 0
        /\ \A l \in Started :
            tally.discs = IF InFinally(l) THEN tally.fails - 1 ELSE tally.fails

C5_FailuresNotify ==
    /\ []C5_Counts
    /\ [][\A l \in Loops :
            (pc[l] # "connecting" /\ pc'[l] = "connecting") =>
                \/ pc[l] = "run"
                \/ pc[l] = "sleep" /\ slept[l] >= RetryDelay]_vars

\* C5 witness: three failures, three Disconnected notifications, and the
\* fourth attempt under way.
C5_Witness ==
    /\ tally.ok
    /\ tally.fails = 3
    /\ tally.discs = 3
    /\ tally.conns = 0
    /\ pc[1] = "connecting"

\* C6: the listener never applies a Connected notification right after another
\* Connected notification: a Disconnected one lies between any two.
C6_ConnectedAlternates ==
    [][(afterq # <<>> /\ Head(afterq) /\ afterq' = Tail(afterq)) =>
        lastNote # "Connected"]_vars

\* C7: a thread that has lost its connection or failed to connect, stop() not
\* called, notifies Disconnected on leaving the finally block, sleeps, and
\* eventually attempts to connect again.
C7_RetryForever ==
    /\ \A l \in Loops : (InFinally(l) /\ ~stopped) ~> (pc[l] = "connecting")
    /\ [][\A l \in Loops :
            (pc[l] = "fin142" /\ pc'[l] # "fin142") =>
                (afterq' = Append(afterq, FALSE) /\ pc'[l] = "sleep")]_vars

\* C7 witness: a connection was made and lost, Disconnected was applied, stop()
\* was not called, and the next attempt is under way.
C7_Witness ==
    /\ pc[1] = "connecting"
    /\ nConns = 1
    /\ wsOpen = {}
    /\ ~stopped
    /\ lastNote = "Disconnected"

\* C8: no thread is started, and no connection attempted, for an address that
\* is empty or malformed.
C8_InvalidAddressRejected == \A l \in Loops : pc[l] # "none" => ValidUri(url_)

\* C9: the pointer sampler is armed only while the window is focused, and no
\* Move, Click or Scroll event is produced while it is not.
C9_ArmedOnlyFocused ==
    /\ mouse_active => focused
    /\ lastEvt.msg.type \in PointerTypes => lastEvt.focused

\* C10: the sampler is armed only while the relay is enabled, the click and
\* wheel handlers are bound only while it is armed, and no Move, Click or
\* Scroll event is handed to the transport while the relay is disabled.
C10_PointerOnlyEnabled ==
    /\ mouse_active => mouse_enabled
    /\ bound => mouse_active
    /\ lastEvt.msg.type \in PointerTypes => lastEvt.enabled

\* C10 witness: the relay was enabled and produced a wheel event, then was
\* disabled with a timer callback still waiting.
C10_Witness ==
    /\ ~mouse_enabled
    /\ ~mouse_active
    /\ pollPending > 0
    /\ lastEvt.msg.type = "scroll"

\* C11: focus lost while the sampler is armed disarms it at once, and until
\* the next focus-in or toggle the sampler stays disarmed and no Move event is
\* emitted, a timer callback scheduled before included.
C11_FocusLostDisarms ==
    /\ [](quiet => (~mouse_active /\ ~bound))
    /\ [][(focused /\ ~focused') => ~mouse_active']_vars
    /\ [][(quiet /\ quiet') =>
            ~(lastEvt'.n # lastEvt.n /\ lastEvt'.msg.type = "mousemove_abs")]_vars

\* C11 witness: focus was lost while armed, and the timer callback that was
\* waiting then has run without a Move.
C11_Witness ==
    /\ quiet
    /\ mouse_enabled
    /\ pollPending = 0
    /\ lastEvt.msg.type = "mousemove_abs"
    /\ lastEvt.focused

\* C12: a disarmed sampler has no timer callback waiting.
C12_DisarmCancelsTimer == ~mouse_active => pollPending = 0

\* C13: a timer tick of the armed sampler emits a Move exactly when the position
\* it reads differs from the last emitted one (the first tick after arming has
\* none to compare with and emits), and the last emitted position is then the
\* one read.
C13_MoveIffChanged ==
    sampled.pos # <<>> =>
        /\ sampled.emitted <=> (sampled.pos # sampled.last)
        /\ mouse_active => mouse_last_pos = sampled.pos

\* C13 witness: a tick read the position of the last emitted Move and emitted
\* nothing.
C13_Witness ==
    /\ mouse_active
    /\ sampled.pos = sampled.last
    /\ ~sampled.emitted
    /\ lastEvt.msg.type = "mousemove_abs"
    /\ lastEvt.raw = sampled.pos

\* C15: a wheel delta that is a non-zero multiple of 120 gives delta / 120
\* steps, a delta smaller than 120 in magnitude gives delta steps; 120, -120,
\* 45, -45 give 1, -1, 45, -45.
C15_ScrollNotches ==
    lastEvt.msg.type = "scroll" =>
        LET d == lastEvt.raw[1]
            st == lastEvt.msg.dy IN
        /\ (d # 0 /\ Abs(d) % 120 = 0) => st * 120 = d
        /\ Abs(d) < 120 => st = d
        /\ d = 120 => st = 1
        /\ d = -120 => st = -1
        /\ d = 45 => st = 45
        /\ d = -45 => st = -45

\* C15 witness: a wheel delta of -240 was sent as -2 steps.
C15_Witness ==
    /\ lastEvt.msg.type = "scroll"
    /\ lastEvt.raw = <<-240>>
    /\ lastEvt.msg.dy = -2

InUnit(q) == q[2] > 0 /\ 0 <= q[1] /\ q[1] <= q[2]

IsUnitMove(m) == m.type = "mousemove_abs" => (InUnit(m.x) /\ InUnit(m.y))

\* C16: every Move handed to the transport, and every Move waiting on an event
\* loop, has x and y in [0, 1].
C16_MoveInUnitSquare ==
    /\ IsUnitMove(lastEvt.msg)
    /\ \A l \in Loops : \A i \in 1..Len(workq[l]) : IsUnitMove(workq[l][i].msg)

\* C16 witness: the pointer left of and below the screen was sent as (0, 1).
C16_Witness ==
    /\ lastEvt.msg.type = "mousemove_abs"
    /\ lastEvt.raw = <<-1, 3>>
    /\ lastEvt.msg.x = <<0, 1>>
    /\ lastEvt.msg.y = <<1, 1>>

\* C18: a thread waiting in recv() on an open connection stays there: it goes
\* on only once the connection has been closed by the peer, an error or
\* disconnect().
C18_StaysConnected ==
    [][\A l \in Loops :
        (pc[l] = "recv" /\ loopWs[l] \in wsOpen) => pc'[l] = "recv"]_vars

\* C19: at most one pointer-poll timer callback is waiting.
C19_SinglePollTimer == pollPending <= 1

Sign(n) == IF n < 0 THEN -1 ELSE IF n > 0 THEN 1 ELSE 0

\* C20: the steps sent for a delta d are the negation of the steps for -d, an
\* event is sent for -d as well, and the steps have the sign of d.
C20_ScrollSignSymmetric ==
    lastEvt.msg.type = "scroll" =>
        LET d == lastEvt.raw[1]
            st == lastEvt.msg.dy IN
        /\ st = -ScrollSteps(-d)
        /\ ScrollSteps(-d) # 0
        /\ Sign(st) = Sign(d)

\* a key press the table, the letter rule and the digit rule pass over, with
\* one printable character
FallbackCase(k) ==
    /\ k.any
    /\ k.keysym \notin MODIFIER_KEYSYMS
    /\ ~InTable(k.keysym)
    /\ ~(Len(k.keysym) = 1 /\ (IsAlpha(k.keysym[1]) \/ IsDigit(k.keysym[1])))
    /\ Len(k.char) = 1
    /\ IsPrintable(k.char[1])

\* C14: such a key press has the code "Key" + uppercase(char) when the char is
\* a letter, and otherwise has no code and sends no keydown message.
C14_FallbackDrops ==
    FallbackCase(lastKey) =>
        IF IsAlpha(lastKey.char[1])
        THEN lastKey.code = <<"K", "e", "y", Upper(lastKey.char[1])>> /\ lastKey.sent
        ELSE lastKey.code = None /\ ~lastKey.sent

\* C14, amended: such a key press has the code "Key" + uppercase(char) when the
\* char is a letter, and otherwise the raw symbol itself as its code; the
\* keydown message is sent with that code unless the symbol is empty.
C14_FallbackKeysym ==
    FallbackCase(lastKey) =>
        /\ lastKey.code = IF IsAlpha(lastKey.char[1])
                          THEN <<"K", "e", "y", Upper(lastKey.char[1])>>
                          ELSE lastKey.keysym
        /\ lastKey.sent <=> (lastKey.code # <<>>)
        /\ lastKey.sent =>
            (lastEvt.msg.type = "keydown" /\ lastEvt.msg.code = lastKey.code)

\* C14 witness: "!" typed, symbol exclam, was sent with the code exclam.
C14_Witness ==
    /\ lastKey.keysym = <<"e", "x", "c", "l", "a", "m">>
    /\ lastKey.char = <<"!">>
    /\ lastKey.sent
    /\ lastEvt.msg.type = "keydown"
    /\ lastEvt.msg.code = <<"e", "x", "c", "l", "a", "m">>
    /\ lastEvt.msg.key = <<"!">>

\* C17: the press of a modifier key sends no keydown message, whatever its
\* char and bitmask; a keydown message is of another key and carries the
\* modifiers as the four booleans of the bitmask.
C17_ModifierNeverSent ==
    /\ (lastKey.any /\ lastKey.keysym \in MODIFIER_KEYSYMS) => ~lastKey.sent
    /\ lastEvt.msg.type = "keydown" =>
        /\ lastEvt.raw \notin MODIFIER_KEYSYMS
        /\ lastEvt.msg.code \notin MODIFIER_KEYSYMS
    /\ lastKey.sent =>
        /\ lastEvt.msg.shift = (lastKey.state % 2 >= 1)
        /\ lastEvt.msg.ctrl = (lastKey.state % 8 >= 4)
        /\ lastEvt.msg.meta = (lastKey.state % 16 >= 8)
        /\ lastEvt.msg.alt = (lastKey.state % 32 >= 16)

\* C17 witness: Shift_R pressed with the char "A" and Command and Option held
\* was handled and sent nothing.
C17_Witness ==
    /\ lastKey.keysym = <<"S", "h", "i", "f", "t", "_", "R">>
    /\ lastKey.char = <<"A">>
    /\ lastKey.state = 24
    /\ ~lastKey.sent
    /\ ~has_placeholder

====
